---- MODULE Spec2Model ----
(***************************************************************************)
(* Call-graph extractor of worldsayshi/mobl.                                *)
(*                                                                         *)
(* Two variants of the program are modelled side by side:                  *)
(*   "sqlite"  - src/main.go: walk, processFile, storeToDgraph (SQLite     *)
(*               file callgraph.db), queryCallGraph, generateDotFile;      *)
(*   "dotflag" - src/unnamed/part_000: walk, processFile,                  *)
(*               generateDotOutput, writeDotFile (-dotgraph flag).         *)
(* The variant is fixed when a process starts.  callgraph.db and the DOT   *)
(* file live in the file system and survive the process.                   *)
(***************************************************************************)
EXTENDS Integers, Sequences, FiniteSets, TLC

(* ------------------------------ bounds -------------------------------- *)
\* function declarations in the files of one walk
MaxDecls == 2
\* call expressions in the files of one walk
MaxCalls == 3
\* invocations of the walk callback in one run
MaxEntries == 2
\* invocations of the program over the same working directory
MaxRuns == 2

(* ------------------------------ inputs -------------------------------- *)
Variants == {"sqlite", "dotflag"}

\* names a function_declaration may declare
FuncNames == {"a", "b"}

\* callee nodes of call_expression nodes: the node type and its source text
CallExprs ==
  { [type |-> "identifier", text |-> "b"],
    [type |-> "identifier", text |-> "c"],
    [type |-> "selector_expression", text |-> "p.b"] }

\* every string that can name a node of the graph
AllNames == FuncNames \cup {e.text : e \in CallExprs}

SeqsUpTo(S, n) == UNION {[1..k -> S] : k \in 0..n}

\* the call expressions of a body of at most c of them, in the order the
\* query cursor reports them
Bodies(c) == SeqsUpTo(CallExprs, c)

\* the function_declaration matches of a file (name and body), in the order
\* of the cursor: at most d declarations with at most c call expressions
RECURSIVE Contents(_, _)
Contents(d, c) ==
  {<<>>} \cup
  IF d = 0 THEN {}
  ELSE UNION { { <<[name |-> n, body |-> b]>> \o rest :
                   rest \in Contents(d - 1, c - Len(b)) } :
               n \in FuncNames, b \in Bodies(c) }

\* what filepath.Walk hands to its callback: an entry it could not lstat or
\* list (err != nil), a directory, a file without the .go extension, or a
\* .go file (which os.ReadFile / ParseCtx may fail on); by the declarations
\* and call expressions the file may have
Entries ==
  [d \in 0..MaxDecls, c \in 0..MaxCalls |->
     { [kind |-> "err",   read |-> "none", content |-> <<>>],
       [kind |-> "dir",   read |-> "none", content |-> <<>>],
       [kind |-> "other", read |-> "none", content |-> <<>>],
       [kind |-> "go",    read |-> "readerr",  content |-> <<>>],
       [kind |-> "go",    read |-> "parseerr", content |-> <<>>] }
     \cup [kind : {"go"}, read : {"ok"}, content : Contents(d, c)]]

\* the call expressions in a file
RECURSIVE CountCalls(_)
CountCalls(content) ==
  IF content = <<>> THEN 0
  ELSE Len(Head(content).body) + CountCalls(Tail(content))

\* the command line: the flag part and the number of positional arguments
FlagStates == {"none", "dotgraph", "bad"}
NArgs == 0..2

(* --------------------------- Go values -------------------------------- *)
\* a []string: nil, or allocated with its elements
NilSlice == [isNil |-> TRUE, elems |-> <<>>]
EmptySlice == [isNil |-> FALSE, elems |-> <<>>]
append(s, x) == [isNil |-> FALSE, elems |-> Append(s.elems, x)]

\* map[k] = v
MapSet(m, k, v) == [x \in DOMAIN m \cup {k} |-> IF x = k THEN v ELSE m[x]]
EmptyMap == [x \in {} |-> 0]

\* byte order of the names (SQLite's BINARY collation; also used to list a
\* set in a fixed order)
NameOrder == <<"a", "b", "c", "p.b">>
Rank(s) == CHOOSE i \in 1..Len(NameOrder) : NameOrder[i] = s

RECURSIVE SortedSeq(_)
SortedSeq(S) ==
  IF S = {} THEN <<>>
  ELSE LET m == CHOOSE x \in S : \A y \in S : Rank(x) <= Rank(y)
       IN <<m>> \o SortedSeq(S \ {m})

(* ----------------------------- state ---------------------------------- *)
VARIABLES
  variant,      \* which main is running
  run,          \* number of the current invocation
  flags,        \* flag part of the command line
  nargs,        \* number of positional arguments
  pc,           \* position of main
  walkIdx,      \* callback invocations of filepath.Walk so far; the i-th
                \* invocation is for the i-th path of the walk
  fileCount,    \* main's fileCount
  functionMap,  \* main's functionMap: name -> Function
  errLogged,    \* paths for which "Error processing ..." was logged
  walkResult,   \* main's err of filepath.Walk: "pending" until Walk
                \* returns, then "nil" or "error"
  fatal,        \* argument of log.Fatal ("" while none)
  exitCode,     \* exit status, meaningful once pc = "exit"
  db,           \* callgraph.db: tables nodes and edges
  todo,         \* keys a range loop over a map has still to visit
  result,       \* the map handed to the DOT adapter
  nodes,        \* the DOT adapter's nodes map (its key set)
  graph,        \* the graphviz graph under construction
  dotBuf,       \* rendered DOT text
  dotFiles,     \* DOT files on disk, by path
  written,      \* outputs this invocation has written so far
  entryErrs,    \* history: paths the callback was invoked for with
                \* err != nil
  lastDecl,     \* history of the walk in progress: per name, the
                \* declaration processed most recently (path and body)
  shadowed,     \* history of the walk in progress: names declared more
                \* than once, with bodies that differ
  declsSeen,    \* history of the walk in progress: declarations processed
  callsSeen,    \* history of the walk in progress: call expressions seen
  tree,         \* the entries of the source directory in the order of
                \* filepath.Walk, where the invocations are over one
                \* unchanged tree (<<>> where each walk is left open)
  prevRun       \* history: what the previous invocation over the unchanged
                \* tree computed

vars == <<variant, run, flags, nargs, pc, walkIdx, fileCount, functionMap,
          errLogged, walkResult, fatal, exitCode, db, todo, result, nodes,
          graph, dotBuf, dotFiles, written, entryErrs, lastDecl, shadowed,
          declsSeen, callsSeen, tree, prevRun>>

\* state of one process, everything but the file system
procVars == <<pc, walkIdx, fileCount, functionMap, errLogged, walkResult, fatal,
              exitCode, todo, result, nodes, graph, dotBuf, written, entryErrs,
              lastDecl, shadowed, declsSeen, callsSeen>>

EmptyDb == [nodes |-> EmptyMap, edges |-> {}]
EmptyGraph == [nodes |-> {}, edges |-> {}]
NoFile == [exists |-> FALSE, stmts |-> <<>>]
NoRun == [ran |-> FALSE, walkResult |-> "pending", functionMap |-> EmptyMap,
          queried |-> FALSE, result |-> EmptyMap]
DotPaths == {"callgraph.dot", "out.dot"}

\* a fresh process: main's locals before its first statement
Fresh ==
  /\ pc = "main"
  /\ walkIdx = 0
  /\ fileCount = 0
  /\ functionMap = EmptyMap
  /\ errLogged = {}
  /\ walkResult = "pending"
  /\ fatal = ""
  /\ exitCode = 0
  /\ todo = {}
  /\ result = EmptyMap
  /\ nodes = {}
  /\ graph = EmptyGraph
  /\ dotBuf = NoFile
  /\ written = {}
  /\ entryErrs = {}
  /\ lastDecl = EmptyMap
  /\ shadowed = {}
  /\ declsSeen = 0
  /\ callsSeen = 0

Init ==
  /\ variant \in Variants
  /\ run = 1
  /\ flags \in FlagStates
  /\ nargs \in NArgs
  /\ db = EmptyDb
  /\ dotFiles = [p \in DotPaths |-> NoFile]
  /\ tree = <<>>
  /\ prevRun = NoRun
  /\ Fresh

(* --------------------------- processFile ------------------------------ *)
\* the call query's captures appended in cursor order: only a
\* call_expression whose function child is an identifier matches
\* as collectCalls, but a callee already captured is not captured again
RECURSIVE collectCallsOnce(_, _)
collectCallsOnce(body, calls) ==
  IF body = <<>> THEN calls
  ELSE collectCallsOnce(Tail(body),
         IF /\ Head(body).type = "identifier"
            /\ \A i \in 1..Len(calls.elems) : calls.elems[i] # Head(body).text
         THEN append(calls, Head(body).text)
         ELSE calls)

RECURSIVE collectCalls(_, _)
collectCalls(body, calls) ==
  IF body = <<>> THEN calls
  ELSE collectCalls(Tail(body),
                    IF Head(body).type = "identifier"
                    THEN append(calls, Head(body).text)
                    ELSE calls)

\* as processMatch, but the calls of a name already in the map are kept and
\* the new ones appended to them
processMatchMerging(filePath, decl, fm) ==
  LET function == [Name |-> decl.name,
                   FilePath |-> filePath,
                   Calls |-> collectCalls(decl.body,
                                          IF decl.name \in DOMAIN fm
                                          THEN fm[decl.name].Calls
                                          ELSE EmptySlice)]
  IN MapSet(fm, decl.name, function)

\* as processMatch, but the record is named by the first captured call of
\* the body where there is one
processMatchNamedByCall(filePath, decl, fm) ==
  LET calls == collectCalls(decl.body, EmptySlice)
      function == [Name |-> IF calls.elems = <<>> THEN decl.name
                            ELSE Head(calls.elems),
                   FilePath |-> filePath,
                   Calls |-> calls]
  IN MapSet(fm, decl.name, function)

\* one match of the declaration query: build the Function, store it
processMatch(filePath, decl, fm) ==
  LET function == [Name |-> decl.name,
                   FilePath |-> filePath,
                   Calls |-> collectCalls(decl.body, EmptySlice)]
  IN MapSet(fm, decl.name, function)

RECURSIVE processMatches(_, _, _)
processMatches(filePath, content, fm) ==
  IF content = <<>> THEN fm
  ELSE processMatches(filePath, Tail(content),
                      processMatch(filePath, Head(content), fm))

\* as processFile, but a failure hands back a fresh map
processFileResetting(filePath, entry, fm) ==
  IF entry.read = "readerr"
  THEN [err |-> "error reading file", functionMap |-> EmptyMap]
  ELSE IF entry.read = "parseerr"
  THEN [err |-> "error parsing file", functionMap |-> EmptyMap]
  ELSE [err |-> "", functionMap |-> processMatches(filePath, entry.content, fm)]

\* processFile: the error it returns ("" for nil) and the map it leaves.
\* The two queries are constant, valid patterns: sitter.NewQuery cannot fail
\* on them, so reading and parsing are the only failures.
processFile(filePath, entry, fm) ==
  IF entry.read = "readerr"
  THEN [err |-> "error reading file", functionMap |-> fm]
  ELSE IF entry.read = "parseerr"
  THEN [err |-> "error parsing file", functionMap |-> fm]
  ELSE [err |-> "", functionMap |-> processMatches(filePath, entry.content, fm)]

\* history: the declarations of a file that was read and parsed become the
\* most recent ones of their names
Declared(content, n) == {i \in 1..Len(content) : content[i].name = n}
LastIndex(S) == CHOOSE i \in S : \A j \in S : j <= i
NoteDecls(filePath, entry, ld) ==
  IF entry.read # "ok" THEN ld
  ELSE LET c == entry.content
           named == {n \in FuncNames : Declared(c, n) # {}}
       IN [n \in DOMAIN ld \cup named |->
             IF n \in named
             THEN [path |-> filePath, body |-> c[LastIndex(Declared(c, n))].body]
             ELSE ld[n]]

\* history: the names a file declares with a body that differs from that of
\* an earlier declaration of the name, in an earlier file or in this one
NoteShadowed(entry, ld) ==
  IF entry.read # "ok" THEN {}
  ELSE LET c == entry.content
       IN {n \in FuncNames :
             \/ n \in DOMAIN ld /\ \E i \in Declared(c, n) : c[i].body # ld[n].body
             \/ \E i, j \in Declared(c, n) : c[i].body # c[j].body}

(* ------------------------------ main ---------------------------------- *)
\* log.Fatal: print and os.Exit(1)
Fatal(msg) ==
  /\ fatal' = msg
  /\ exitCode' = 1
  /\ pc' = "exit"

\* len(os.Args): the program name, the flag tokens and the positional ones
FlagTokens == [none |-> 0, dotgraph |-> 2, bad |-> 1]
LenOsArgs == 1 + FlagTokens[flags] + nargs

\* as ParseArgs, but a command line without an output flag is refused
ParseArgsFlagRequired ==
  /\ pc = "main"
  /\ IF flags # "dotgraph" \/ nargs # 1
     THEN Fatal("Usage")
     ELSE /\ pc' = "walk"
          /\ UNCHANGED <<fatal, exitCode>>
  /\ UNCHANGED <<variant, run, flags, nargs, walkIdx, fileCount, functionMap,
                 errLogged, walkResult, db, todo, result, nodes, graph,
                 dotBuf, dotFiles, written, lastDecl, entryErrs, shadowed,
                 declsSeen, callsSeen, tree, prevRun>>

\* main up to the walk: the usage check of the variant
ParseArgs ==
  /\ pc = "main"
  /\ IF variant = "sqlite"
     THEN IF LenOsArgs # 2
          THEN Fatal("Usage")
          ELSE /\ pc' = "walk"
               /\ UNCHANGED <<fatal, exitCode>>
     ELSE IF flags = "bad"
          THEN \* flag.Parse with ExitOnError: usage and os.Exit(2)
               /\ fatal' = "Usage"
               /\ exitCode' = 2
               /\ pc' = "exit"
          ELSE IF nargs # 1
               THEN Fatal("Usage")
               ELSE /\ pc' = "walk"
                    /\ UNCHANGED <<fatal, exitCode>>
  /\ UNCHANGED <<variant, run, flags, nargs, walkIdx, fileCount, functionMap,
                 errLogged, walkResult, db, todo, result, nodes, graph, dotBuf,
                 dotFiles, written, lastDecl, entryErrs, shadowed,
                 declsSeen, callsSeen, tree, prevRun>>

\* as walkFn, but the error of processFile is returned to Walk
walkFnStrict(path, entry, fm) ==
  IF entry.kind = "err"
  THEN [ret |-> "err", counted |-> FALSE, logged |-> FALSE, functionMap |-> fm]
  ELSE IF entry.kind = "go"
  THEN LET r == processFile(path, entry, fm)
       IN [ret |-> r.err, counted |-> TRUE, logged |-> r.err # "",
           functionMap |-> r.functionMap]
  ELSE [ret |-> "", counted |-> FALSE, logged |-> FALSE, functionMap |-> fm]

\* the walk callback: what it returns to Walk ("" for nil), whether it
\* counted the file, whether it logged a processing error, and the map
walkFn(path, entry, fm) ==
  IF entry.kind = "err"
  THEN [ret |-> "err", counted |-> FALSE, logged |-> FALSE, functionMap |-> fm]
  ELSE IF entry.kind = "go"
  THEN LET r == processFile(path, entry, fm)
       IN [ret |-> "", counted |-> TRUE, logged |-> r.err # "",
           functionMap |-> r.functionMap]
  ELSE [ret |-> "", counted |-> FALSE, logged |-> FALSE, functionMap |-> fm]

\* as WalkFailed, but main only logs the error and goes on
WalkFailedLogged ==
  /\ walkResult' = "error"
  /\ pc' = IF variant = "sqlite" THEN "store" ELSE "dot"
  /\ UNCHANGED <<fatal, exitCode>>

\* Walk stops at the callback's error and returns it; main logs it fatally
WalkFailed ==
  /\ walkResult' = "error"
  /\ Fatal("walk")

\* one invocation of the walk callback, for the next path of the walk
WalkFn(entry) ==
  /\ pc = "walk"
  /\ walkIdx < MaxEntries
  /\ LET path == walkIdx + 1
         r == walkFn(path, entry, functionMap)
     IN /\ walkIdx' = path
        /\ fileCount' = IF r.counted THEN fileCount + 1 ELSE fileCount
        /\ functionMap' = r.functionMap
        /\ errLogged' = IF r.logged THEN errLogged \cup {path} ELSE errLogged
        /\ entryErrs' = IF entry.kind = "err" THEN entryErrs \cup {path}
                        ELSE entryErrs
        /\ lastDecl' = NoteDecls(path, entry, lastDecl)
        /\ shadowed' = shadowed \cup NoteShadowed(entry, lastDecl)
        /\ declsSeen' = declsSeen + Len(entry.content)
        /\ callsSeen' = callsSeen + CountCalls(entry.content)
        /\ IF r.ret # ""
           THEN WalkFailed
           ELSE UNCHANGED <<pc, walkResult, fatal, exitCode>>
  /\ UNCHANGED <<variant, run, flags, nargs, db, todo, result, nodes, graph,
                 dotBuf, dotFiles, written, tree, prevRun>>

\* the next entry of a tree within the bounds
Walk ==
  /\ pc = "walk"
  /\ \E entry \in Entries[MaxDecls - declsSeen, MaxCalls - callsSeen] :
       WalkFn(entry)

\* filepath.Walk returns nil: main goes on to its first adapter.  In the
\* "dotflag" variant the adapter is handed functionMap itself.
WalkDone ==
  /\ pc = "walk"
  /\ walkResult' = "nil"
  /\ pc' = IF variant = "sqlite" THEN "store" ELSE "dot"
  /\ result' = IF variant = "sqlite" THEN result ELSE functionMap
  /\ lastDecl' = EmptyMap
  /\ shadowed' = {}
  /\ declsSeen' = 0
  /\ callsSeen' = 0
  /\ UNCHANGED <<variant, run, flags, nargs, walkIdx, fileCount, functionMap,
                 errLogged, fatal, exitCode, db, todo, nodes, graph, dotBuf,
                 dotFiles, written, entryErrs, tree, prevRun>>

(* --------------------------- storeToDgraph ---------------------------- *)
\* json.Marshal of the node's map[string]string
Marshal(function) ==
  [id |-> function.Name, name |-> function.Name, filePath |-> function.FilePath]

\* INSERT OR REPLACE INTO nodes (body): id is json_extract(body, '$.id') and
\* UNIQUE, so a row with the same id is replaced
InsertNode(d, body) == [d EXCEPT !.nodes = MapSet(d.nodes, body.id, body)]

\* as InsertEdge, but with the foreign keys enforced: a row whose target is
\* not the id of a node is not inserted
InsertEdgeForeignKeys(d, source, target, properties) ==
  IF target \in DOMAIN d.nodes
  THEN [d EXCEPT !.edges = d.edges \cup {<<source, target, properties>>}]
  ELSE d

\* as InsertEdge, but the table has no UNIQUE constraint: every insert adds
\* a row (told apart by its rowid)
InsertEdgeAppending(d, source, target, properties) ==
  [d EXCEPT !.edges =
     d.edges \cup {<<source, target, <<properties, Cardinality(d.edges)>>>>}]

\* INSERT OR REPLACE INTO edges: UNIQUE(source, target, properties) ON
\* CONFLICT REPLACE keeps one row per triple.  Foreign keys are not enforced
\* (the connection does not turn them on), so any target is accepted.
InsertEdge(d, source, target, properties) ==
  [d EXCEPT !.edges = d.edges \cup {<<source, target, properties>>}]

RECURSIVE InsertEdges(_, _, _, _)
InsertEdges(d, funcName, calls, k) ==
  IF k = 0 THEN d
  ELSE InsertEdge(InsertEdges(d, funcName, calls, k - 1),
                  funcName, calls[k], "calls")

\* an adapter step fails: its error reaches main, which logs it fatally
AdapterFails(msg) ==
  /\ Fatal(msg)
  /\ UNCHANGED <<variant, run, flags, nargs, walkIdx, fileCount, functionMap,
                 errLogged, walkResult, todo, result, nodes, graph, dotBuf,
                 lastDecl, entryErrs, shadowed,
                 declsSeen, callsSeen, tree, prevRun>>

\* sql.Open and the CREATE TABLE / CREATE INDEX IF NOT EXISTS batch
StoreOpen ==
  /\ pc = "store"
  /\ \/ /\ AdapterFails("error creating tables")
        /\ UNCHANGED <<db, dotFiles, written>>
     \/ /\ written' = written \cup {"db"}
        /\ todo' = DOMAIN functionMap
        /\ pc' = IF DOMAIN functionMap = {} THEN "query" ELSE "storeNodes"
        /\ UNCHANGED <<variant, run, flags, nargs, walkIdx, fileCount,
                       functionMap, errLogged, walkResult, fatal, exitCode, db,
                       result, nodes, graph, dotBuf, dotFiles, lastDecl, entryErrs, shadowed,
                 declsSeen, callsSeen, tree, prevRun>>

\* one iteration of the node loop (the range order is Go's choice)
StoreNode(f) ==
  /\ pc = "storeNodes"
  /\ f \in todo
  /\ \/ /\ AdapterFails("error inserting node")
        /\ UNCHANGED <<db, dotFiles, written>>
     \/ /\ db' = InsertNode(db, Marshal(functionMap[f]))
        /\ todo' = IF todo = {f} THEN DOMAIN functionMap ELSE todo \ {f}
        /\ pc' = IF todo = {f} THEN "storeEdges" ELSE "storeNodes"
        /\ UNCHANGED <<variant, run, flags, nargs, walkIdx, fileCount,
                       functionMap, errLogged, walkResult, fatal, exitCode,
                       result, nodes, graph, dotBuf, dotFiles, written,
                       lastDecl, entryErrs, shadowed,
                 declsSeen, callsSeen, tree, prevRun>>

\* one iteration of the outer edge loop: every call of f is inserted, or
\* the insert after the first k of them fails
StoreEdges(f) ==
  /\ pc = "storeEdges"
  /\ f \in todo
  /\ LET calls == functionMap[f].Calls.elems IN
     \/ \E k \in 0..(Len(calls) - 1) :
          /\ db' = InsertEdges(db, f, calls, k)
          /\ AdapterFails("error inserting edge")
          /\ UNCHANGED <<dotFiles, written>>
     \/ /\ db' = InsertEdges(db, f, calls, Len(calls))
        /\ todo' = todo \ {f}
        /\ pc' = IF todo = {f} THEN "query" ELSE "storeEdges"
        /\ UNCHANGED <<variant, run, flags, nargs, walkIdx, fileCount,
                       functionMap, errLogged, walkResult, fatal, exitCode,
                       result, nodes, graph, dotBuf, dotFiles, written,
                       lastDecl, entryErrs, shadowed,
                 declsSeen, callsSeen, tree, prevRun>>

(* --------------------------- queryCallGraph --------------------------- *)
\* the rows of nodes LEFT JOIN edges ON n.id = e.source ORDER BY n.id,
\* e.target, with COALESCE(e.target, '') for a node without edges
\* One row per joined edge row: rows of one target are adjacent.
Targets(d, id) == {e[2] : e \in {x \in d.edges : x[1] = id}}
EdgeRows(d, id, target) == {e \in d.edges : e[1] = id /\ e[2] = target}
RECURSIVE TargetRows(_, _, _)
TargetRows(d, id, targets) ==
  IF targets = <<>> THEN <<>>
  ELSE [i \in 1..Cardinality(EdgeRows(d, id, Head(targets))) |->
          [body |-> d.nodes[id], target |-> Head(targets)]]
       \o TargetRows(d, id, Tail(targets))
RowsOf(d, id) ==
  IF Targets(d, id) = {} THEN << [body |-> d.nodes[id], target |-> ""] >>
  ELSE TargetRows(d, id, SortedSeq(Targets(d, id)))

RECURSIVE RowsFor(_, _)
RowsFor(d, ids) ==
  IF ids = <<>> THEN <<>> ELSE RowsOf(d, Head(ids)) \o RowsFor(d, Tail(ids))
Rows(d) == RowsFor(d, SortedSeq(DOMAIN d.nodes))

\* json.Unmarshal of a node body into a zero Function: "id" has no field,
\* "calls" is absent so Calls stays nil
Unmarshal(body) ==
  [Name |-> body.name, FilePath |-> body.filePath, Calls |-> NilSlice]

\* the rows.Next loop
RECURSIVE scanRows(_, _)
scanRows(rows, res) ==
  IF rows = <<>> THEN res
  ELSE LET funcData == Unmarshal(Head(rows).body)
           target == Head(rows).target
           r1 == IF funcData.Name \notin DOMAIN res
                 THEN MapSet(res, funcData.Name,
                             [funcData EXCEPT !.Calls = EmptySlice])
                 ELSE res
           r2 == IF target # ""
                 THEN [r1 EXCEPT ![funcData.Name].Calls = append(@, target)]
                 ELSE r1
       IN scanRows(Tail(rows), r2)

queryCallGraph(d) == scanRows(Rows(d), EmptyMap)

QueryCallGraph ==
  /\ pc = "query"
  /\ \/ AdapterFails("error querying SQLite")
     \/ /\ result' = queryCallGraph(db)
        /\ pc' = "dot"
        /\ UNCHANGED <<variant, run, flags, nargs, walkIdx, fileCount,
                       functionMap, errLogged, walkResult, fatal, exitCode,
                       todo, nodes, graph, dotBuf, lastDecl, entryErrs, shadowed,
                 declsSeen, callsSeen, tree, prevRun>>
  /\ UNCHANGED <<db, dotFiles, written>>

(* ------------------- generateDotFile / generateDotOutput -------------- *)
\* graph.CreateNodeByName (cgraph agnode with the create flag): the node of
\* that name, created only if the graph has none
CreateNodeByName(g, name) == [g EXCEPT !.nodes = @ \cup {name}]

\* graph.CreateEdgeByName (cgraph agedge with the create flag) on a
\* non-strict directed graph: an edge is identified by its tail, its head
\* and its name, and the existing edge is returned when there is one
CreateEdgeByName(g, name, start, end) ==
  [g EXCEPT !.edges = @ \cup {<<start, end, name>>}]

\* as visitCalls, but no node is created for a call target
RECURSIVE visitCallsKnownOnly(_, _, _)
visitCallsKnownOnly(st, funcName, calls) ==
  IF calls = <<>> THEN st
  ELSE visitCallsKnownOnly(
         [st EXCEPT !.graph = CreateEdgeByName(@, "call", funcName, Head(calls))],
         funcName, Tail(calls))

\* the inner loop over funcData.Calls; st is [graph, nodes]
RECURSIVE visitCalls(_, _, _)
visitCalls(st, funcName, calls) ==
  IF calls = <<>> THEN st
  ELSE LET calledFunc == Head(calls)
           s1 == IF calledFunc \notin st.nodes
                 THEN [graph |-> CreateNodeByName(st.graph, calledFunc),
                       nodes |-> st.nodes \cup {calledFunc}]
                 ELSE st
           s2 == [s1 EXCEPT !.graph =
                    CreateEdgeByName(@, "call", funcName, calledFunc)]
       IN visitCalls(s2, funcName, Tail(calls))

\* one iteration of the outer loop over result
visitFunction(st, funcName, funcData) ==
  visitCalls([graph |-> CreateNodeByName(st.graph, funcName),
              nodes |-> st.nodes \cup {funcName}],
             funcName, funcData.Calls.elems)

\* graphviz.New and g.Graph()
DotOpen ==
  /\ pc = "dot"
  /\ \/ AdapterFails("error creating graph")
     \/ /\ graph' = [nodes |-> {}, edges |-> {}]
        /\ nodes' = {}
        /\ todo' = DOMAIN result
        /\ pc' = IF DOMAIN result = {} THEN "render" ELSE "dotLoop"
        /\ UNCHANGED <<variant, run, flags, nargs, walkIdx, fileCount,
                       functionMap, errLogged, walkResult, fatal, exitCode,
                       result, dotBuf, lastDecl, entryErrs, shadowed,
                 declsSeen, callsSeen, tree, prevRun>>
  /\ UNCHANGED <<db, dotFiles, written>>

\* one iteration of the loop over result (the range order is Go's choice)
DotVisit(funcName) ==
  /\ pc = "dotLoop"
  /\ funcName \in todo
  /\ \/ AdapterFails("error creating node")
     \/ /\ LET st == visitFunction([graph |-> graph, nodes |-> nodes],
                                   funcName, result[funcName])
           IN /\ graph' = st.graph
              /\ nodes' = st.nodes
        /\ todo' = todo \ {funcName}
        /\ pc' = IF todo = {funcName} THEN "render" ELSE "dotLoop"
        /\ UNCHANGED <<variant, run, flags, nargs, walkIdx, fileCount,
                       functionMap, errLogged, walkResult, fatal, exitCode,
                       result, dotBuf, lastDecl, entryErrs, shadowed,
                 declsSeen, callsSeen, tree, prevRun>>
  /\ UNCHANGED <<db, dotFiles, written>>

\* g.Render in DOT format: one node statement per node and one edge
\* statement per edge of the graph
NodeStmts(names) ==
  [i \in 1..Len(names) |-> [stmt |-> "node", name |-> names[i]]]
EdgesFrom(g, t) == {e \in g.edges : e[1] = t}
RECURSIVE EdgeStmts(_, _)
EdgeStmts(g, tails) ==
  IF tails = <<>> THEN <<>>
  ELSE LET heads == SortedSeq({e[2] : e \in EdgesFrom(g, Head(tails))})
       IN [i \in 1..Len(heads) |->
             [stmt |-> "edge", tail |-> Head(tails), head |-> heads[i]]]
          \o EdgeStmts(g, Tail(tails))
RenderDot(g) ==
  NodeStmts(SortedSeq(g.nodes)) \o EdgeStmts(g, SortedSeq(g.nodes))

Render ==
  /\ pc = "render"
  /\ \/ AdapterFails("error rendering DOT output")
     \/ /\ dotBuf' = [exists |-> TRUE, stmts |-> RenderDot(graph)]
        /\ pc' = "write"
        /\ UNCHANGED <<variant, run, flags, nargs, walkIdx, fileCount,
                       functionMap, errLogged, walkResult, fatal, exitCode,
                       todo, result, nodes, graph, lastDecl, entryErrs, shadowed,
                 declsSeen, callsSeen, tree, prevRun>>
  /\ UNCHANGED <<db, dotFiles, written>>

\* the path of the DOT file: the -dotgraph flag with its default, or the
\* fixed path of the "sqlite" variant
DotPath ==
  IF variant = "dotflag" /\ flags = "dotgraph" THEN "out.dot"
  ELSE "callgraph.dot"

\* os.WriteFile of the buffer, then main returns: exit status 0.  A failed
\* WriteFile leaves the old file or a truncated one.
WriteDotFile ==
  /\ pc = "write"
  /\ \/ /\ AdapterFails("error writing DOT output to file")
        /\ \/ UNCHANGED dotFiles
           \/ dotFiles' = [dotFiles EXCEPT ![DotPath] =
                             [exists |-> TRUE, stmts |-> <<>>]]
        /\ UNCHANGED written
     \/ /\ dotFiles' = [dotFiles EXCEPT ![DotPath] = dotBuf]
        /\ written' = written \cup {"dot"}
        /\ pc' = "exit"
        /\ exitCode' = 0
        /\ UNCHANGED <<variant, run, flags, nargs, walkIdx, fileCount,
                       functionMap, errLogged, walkResult, fatal, todo, result,
                       nodes, graph, dotBuf, lastDecl, entryErrs, shadowed,
                 declsSeen, callsSeen, tree, prevRun>>
  /\ UNCHANGED db

(* ------------------------- the working directory ---------------------- *)
\* the program is invoked again in the same working directory: a new
\* process, the files as the last one left them
Restart ==
  /\ pc = "exit"
  /\ run < MaxRuns
  /\ run' = run + 1
  /\ flags' \in FlagStates
  /\ nargs' \in NArgs
  /\ pc' = "main"
  /\ walkIdx' = 0
  /\ fileCount' = 0
  /\ functionMap' = EmptyMap
  /\ errLogged' = {}
  /\ walkResult' = "pending"
  /\ fatal' = ""
  /\ exitCode' = 0
  /\ todo' = {}
  /\ result' = EmptyMap
  /\ nodes' = {}
  /\ graph' = EmptyGraph
  /\ dotBuf' = NoFile
  /\ written' = {}
  /\ entryErrs' = {}
  /\ lastDecl' = EmptyMap
  /\ shadowed' = {}
  /\ declsSeen' = 0
  /\ callsSeen' = 0
  /\ UNCHANGED <<variant, db, dotFiles, tree, prevRun>>

\* the Justfile recipes delete-dgraph-data (rm -f callgraph.db) and
\* delete-output (rm -f callgraph.*), run between invocations
DeleteOutput ==
  /\ pc = "exit"
  /\ db # EmptyDb \/ dotFiles["callgraph.dot"] # NoFile
  /\ db' = EmptyDb
  /\ dotFiles' = IF variant = "sqlite" THEN dotFiles
                 ELSE [dotFiles EXCEPT !["callgraph.dot"] = NoFile]
  /\ UNCHANGED <<variant, run, flags, nargs, tree, prevRun>>
  /\ UNCHANGED procVars

(* --------------------------- specifications --------------------------- *)
\* one invocation
Next ==
  \/ ParseArgs
  \/ Walk
  \/ WalkDone
  \/ StoreOpen
  \/ \E f \in FuncNames : StoreNode(f)
  \/ \E f \in FuncNames : StoreEdges(f)
  \/ QueryCallGraph
  \/ DotOpen
  \/ \E f \in FuncNames : DotVisit(f)
  \/ Render
  \/ WriteDotFile

Spec == Init /\ [][Next]_vars

\* invocations one after the other over the same working directory, over
\* trees of small files: at most one declaration with at most one call
SmallEntries ==
  {e \in Entries[1, 1] : e.read \in {"ok", "none"}}

WalkSmall ==
  /\ pc = "walk"
  /\ \E entry \in SmallEntries :
       /\ declsSeen + Len(entry.content) <= MaxDecls
       /\ callsSeen + CountCalls(entry.content) <= MaxCalls
       /\ WalkFn(entry)

NextRuns ==
  \/ ParseArgs
  \/ WalkSmall
  \/ WalkDone
  \/ StoreOpen
  \/ \E f \in FuncNames : StoreNode(f)
  \/ \E f \in FuncNames : StoreEdges(f)
  \/ QueryCallGraph
  \/ DotOpen
  \/ \E f \in FuncNames : DotVisit(f)
  \/ Render
  \/ WriteDotFile
  \/ Restart
  \/ DeleteOutput

SpecRuns == Init /\ [][NextRuns]_vars

\* invocations one after the other over one unchanged tree of small files,
\* with the same command line, nothing else touching the working directory
RECURSIVE TreeContent(_)
TreeContent(t) ==
  IF t = <<>> THEN <<>> ELSE Head(t).content \o TreeContent(Tail(t))

Trees ==
  {t \in SeqsUpTo(SmallEntries, MaxEntries) :
     /\ Len(TreeContent(t)) <= MaxDecls
     /\ CountCalls(TreeContent(t)) <= MaxCalls}

InitTree ==
  /\ variant \in Variants
  /\ run = 1
  /\ flags \in FlagStates
  /\ nargs \in NArgs
  /\ db = EmptyDb
  /\ dotFiles = [p \in DotPaths |-> NoFile]
  /\ tree \in Trees
  /\ prevRun = NoRun
  /\ Fresh

\* the callback is invoked for the next entry of the tree
WalkTree ==
  /\ pc = "walk"
  /\ walkIdx < Len(tree)
  /\ WalkFn(tree[walkIdx + 1])

\* the callback has been invoked for every entry: filepath.Walk returns nil
WalkTreeDone ==
  /\ pc = "walk"
  /\ walkIdx = Len(tree)
  /\ WalkDone

\* the invocation got a graph from its query (in the "dotflag" variant, from
\* its walk) and handed it to the DOT adapter
DotErrors ==
  {"error creating graph", "error creating node",
   "error rendering DOT output", "error writing DOT output to file"}
Queried ==
  \/ pc \in {"dot", "dotLoop", "render", "write"}
  \/ pc = "exit" /\ (exitCode = 0 \/ fatal \in DotErrors)

\* the same command is run again: a new process, the files as the last one
\* left them
RunAgain ==
  /\ pc = "exit"
  /\ run < MaxRuns
  /\ run' = run + 1
  /\ prevRun' = [ran |-> TRUE, walkResult |-> walkResult,
                 functionMap |-> functionMap,
                 queried |-> Queried, result |-> result]
  /\ pc' = "main"
  /\ walkIdx' = 0
  /\ fileCount' = 0
  /\ functionMap' = EmptyMap
  /\ errLogged' = {}
  /\ walkResult' = "pending"
  /\ fatal' = ""
  /\ exitCode' = 0
  /\ todo' = {}
  /\ result' = EmptyMap
  /\ nodes' = {}
  /\ graph' = EmptyGraph
  /\ dotBuf' = NoFile
  /\ written' = {}
  /\ entryErrs' = {}
  /\ lastDecl' = EmptyMap
  /\ shadowed' = {}
  /\ declsSeen' = 0
  /\ callsSeen' = 0
  /\ UNCHANGED <<variant, flags, nargs, db, dotFiles, tree>>

NextTree ==
  \/ ParseArgs
  \/ WalkTree
  \/ WalkTreeDone
  \/ StoreOpen
  \/ \E f \in FuncNames : StoreNode(f)
  \/ \E f \in FuncNames : StoreEdges(f)
  \/ QueryCallGraph
  \/ DotOpen
  \/ \E f \in FuncNames : DotVisit(f)
  \/ Render
  \/ WriteDotFile
  \/ RunAgain

SpecTree == InitTree /\ [][NextTree]_vars

(* ------------------------------ claims -------------------------------- *)
\* the bare-identifier callee names of a body, in textual order
BareCallees(body) ==
  LET ids == SelectSeq(body, LAMBDA e : e.type = "identifier")
  IN [i \in 1..Len(ids) |-> ids[i].text]

\* the identifier callees among the first p call expressions of a body
IdentsUpTo(body, p) == {q \in 1..p : body[q].type = "identifier"}

Range(seq) == {seq[i] : i \in 1..Len(seq)}
Occurrences(seq, x) == Cardinality({i \in 1..Len(seq) : seq[i] = x})
AdapterPcs ==
  {"store", "storeNodes", "storeEdges", "query", "dot", "dotLoop", "render",
   "write"}
DotPcs == {"dot", "dotLoop", "render", "write"}
AdapterErrors ==
  {"error creating tables", "error inserting node", "error inserting edge",
   "error querying SQLite", "error creating graph", "error creating node",
   "error rendering DOT output", "error writing DOT output to file"}
Succeeded == pc = "exit" /\ exitCode = 0

\* re-reading a DOT file: its nodes, and how often it has an edge
DotNodeCount(stmts, n) ==
  Cardinality({i \in 1..Len(stmts) :
                 stmts[i].stmt = "node" /\ stmts[i].name = n})
DotEdgeCount(stmts, f, g) ==
  Cardinality({i \in 1..Len(stmts) :
                 stmts[i].stmt = "edge" /\ stmts[i].tail = f /\ stmts[i].head = g})
DotNodes(stmts) ==
  {n \in AllNames :
     \/ DotNodeCount(stmts, n) > 0
     \/ \E m \in AllNames : DotEdgeCount(stmts, n, m) + DotEdgeCount(stmts, m, n) > 0}
CallTargets(m, keys) == UNION {Range(m[k].Calls.elems) : k \in keys}

\* the command line the variant's usage check refuses
BadCommandLine ==
  IF variant = "sqlite" THEN 1 + FlagTokens[flags] + nargs # 2
  ELSE flags = "bad" \/ nargs # 1

\* C1: aggregation is last-write-wins.  While the walk runs, the map has an
\* entry exactly for the names declared so far, and the entry of a name is
\* the record (name, path, calls) of the declaration of that name processed
\* most recently: nothing of an earlier declaration is merged in or kept.
C1_LastWriteWins ==
  pc = "walk" =>
    /\ DOMAIN functionMap = DOMAIN lastDecl
    /\ \A n \in DOMAIN functionMap :
         functionMap[n] =
           [Name |-> n,
            FilePath |-> lastDecl[n].path,
            Calls |-> [isNil |-> FALSE,
                       elems |-> BareCallees(lastDecl[n].body)]]

\* a name declared twice with different bodies, the second time in the
\* second file, and the map holding the second declaration's calls
C1_Witness ==
  /\ pc = "walk"
  /\ "a" \in shadowed
  /\ "a" \in DOMAIN functionMap
  /\ functionMap["a"].FilePath = 2
  /\ functionMap["a"].Calls.elems = <<"c">>

\* C2: an entry the walk reports an error for is skipped, and neither the
\* walk nor the run is aborted by it.
C2_EntryErrorSkipped ==
  entryErrs # {} => walkResult # "error" /\ fatal # "walk"

\* C3: the graph an invocation hands to the DOT export holds only functions
\* and calls that this invocation extracted.
C3_GraphOfThisInvocationOnly ==
  pc \in DotPcs =>
    \A n \in DOMAIN result :
      /\ n \in DOMAIN functionMap
      /\ Range(result[n].Calls.elems) \subseteq Range(functionMap[n].Calls.elems)

\* C4: the DOT file written by a successful run has, for every caller f and
\* callee g, as many f -> g edges as g occurs in f's extracted call list, and
\* its nodes are those of the extracted call graph.
C4_EdgeMultiplicityPreserved ==
  Succeeded =>
    LET stmts == dotFiles[DotPath].stmts IN
    /\ DotNodes(stmts) =
         DOMAIN functionMap \cup CallTargets(functionMap, DOMAIN functionMap)
    /\ \A f, g \in AllNames :
         DotEdgeCount(stmts, f, g) =
           IF f \in DOMAIN functionMap
           THEN Occurrences(functionMap[f].Calls.elems, g)
           ELSE 0

\* C5: a processFile call that fails leaves the map as it was, its error is
\* logged for the file's path, and the walk goes on to the next entry.
C5_FailedFileAddsNothing ==
  [][errLogged' # errLogged =>
       /\ functionMap' = functionMap
       /\ errLogged' = errLogged \cup {walkIdx'}
       /\ walkIdx' = walkIdx + 1
       /\ fileCount' = fileCount + 1
       /\ pc' = "walk" /\ walkResult' = "pending" /\ fatal' = ""]_vars

\* the first file failed and the second file's function is in the map
C5_Witness ==
  /\ errLogged = {1}
  /\ fileCount = 2
  /\ "a" \in DOMAIN functionMap
  /\ functionMap["a"].FilePath = 2

\* C6: the nodes the DOT adapter has created are the keys it has visited
\* and every call target of theirs, whatever the order of the visits; the
\* file of a successful run declares each key and each call target once.
C6_DotNodeSet ==
  /\ pc \in {"dotLoop", "render", "write"} =>
       LET visited == DOMAIN result \ todo IN
       /\ graph.nodes = visited \cup CallTargets(result, visited)
       /\ nodes = graph.nodes
  /\ Succeeded =>
       \A n \in AllNames :
         DotNodeCount(dotFiles[DotPath].stmts, n) =
           IF n \in DOMAIN result \cup CallTargets(result, DOMAIN result)
           THEN 1 ELSE 0

\* both keys visited: a calls b (a key) and c (never declared), b calls itself
C6_Witness ==
  /\ pc = "render"
  /\ DOMAIN result = {"a", "b"}
  /\ result["a"].Calls.elems = <<"b", "c">>
  /\ result["b"].Calls.elems = <<"b">>
  /\ graph.nodes = {"a", "b", "c"}

\* C7: main is at or in an adapter only after the walk has returned nil, and
\* from then on the function map is not written.
C7_ExtractionBeforeAdapters ==
  /\ [](pc \in AdapterPcs \/ written # {} \/ fatal \in AdapterErrors
          => walkResult = "nil")
  /\ [][walkResult # "pending" => functionMap' = functionMap]_vars

\* an adapter at work on a non-empty map
C7_Witness ==
  /\ pc = "dotLoop"
  /\ walkResult = "nil"
  /\ DOMAIN functionMap = {"a", "b"}

\* C8: the exit status is non-zero exactly after a usage error, a failed
\* walk or a failed adapter step; a run with logged per-file errors and none
\* of these exits 0 with its DOT file written.
C8_ExitCode ==
  pc = "exit" =>
    /\ exitCode # 0 <=>
         \/ fatal = "Usage"
         \/ entryErrs # {}
         \/ fatal \in AdapterErrors
    /\ exitCode = 0 => fatal = "" /\ "dot" \in written

\* a file failed, and the run went through every later stage and exited 0
C8_Witness ==
  /\ pc = "exit"
  /\ exitCode = 0
  /\ errLogged # {}
  /\ "dot" \in written

C10_CallsAreBareCalleesInOrder ==
  pc = "walk" =>
    \A n \in DOMAIN functionMap :
      LET body == lastDecl[n].body
          calls == functionMap[n].Calls.elems
      IN /\ Len(calls) = Cardinality(IdentsUpTo(body, Len(body)))
         /\ \A p \in 1..Len(body) :
              body[p].type = "identifier" =>
                calls[Cardinality(IdentsUpTo(body, p))] = body[p].text

\* one function calling b twice, another with a qualified call only
C10_Witness ==
  /\ pc = "walk"
  /\ DOMAIN functionMap = {"a", "b"}
  /\ functionMap["a"].Calls.elems = <<"b", "b">>
  /\ lastDecl["b"].body = << [type |-> "selector_expression", text |-> "p.b"] >>
  /\ functionMap["b"].Calls.elems = <<>>

\* C11: extraction and the queried graph are idempotent.  Of two consecutive
\* invocations over the unchanged tree, the second starting from the files
\* the first left, the second extracts the map the first extracted (same
\* keys, same record per key), and the graph it hands to the DOT adapter is
\* the one the first handed over.
C11_Idempotent ==
  prevRun.ran =>
    /\ walkResult = "nil" /\ prevRun.walkResult = "nil" =>
         /\ DOMAIN functionMap = DOMAIN prevRun.functionMap
         /\ \A n \in DOMAIN functionMap :
              functionMap[n] = prevRun.functionMap[n]
    /\ Queried /\ prevRun.queried =>
         /\ DOMAIN result = DOMAIN prevRun.result
         /\ \A n \in DOMAIN result : result[n] = prevRun.result[n]

\* the second invocation of the SQLite variant, run to its end over a tree
\* with calls, against the database of the first
C11_Witness ==
  /\ variant = "sqlite"
  /\ run = 2
  /\ prevRun.queried
  /\ Succeeded
  /\ DOMAIN result = {"a", "b"}
  /\ result["a"].Calls.elems = <<"b">>
  /\ result["b"].Calls.elems = <<"c">>

\* C12: every key of the function map is the Name of the record stored
\* under it, at every step of the aggregation, and so is every key of the
\* map queryCallGraph rebuilds.
C12_KeyIsName ==
  /\ \A n \in DOMAIN functionMap : functionMap[n].Name = n
  /\ \A n \in DOMAIN result : result[n].Name = n

\* a rebuilt map of two records, of functions that call others
C12_Witness ==
  /\ variant = "sqlite"
  /\ pc = "dot"
  /\ DOMAIN result = {"a", "b"}
  /\ result["a"].Calls.elems = <<"b">>
  /\ functionMap["b"].Calls.elems = <<"c", "b">>

\* C13: a function whose body has no bare-identifier call has a record, and
\* the record's Calls is an allocated, empty slice (never nil): in the map
\* being extracted, and again in the map queryCallGraph rebuilds from the
\* database.
C13_EmptyCallsNeverNil ==
  /\ pc = "walk" =>
       \A n \in DOMAIN lastDecl :
         BareCallees(lastDecl[n].body) = <<>> =>
           n \in DOMAIN functionMap /\ functionMap[n].Calls = EmptySlice
  /\ \A n \in DOMAIN functionMap : ~functionMap[n].Calls.isNil
  /\ \A n \in DOMAIN result : ~result[n].Calls.isNil
  /\ pc \in DotPcs =>
       \A n \in DOMAIN functionMap :
         functionMap[n].Calls.elems = <<>> =>
           n \in DOMAIN result /\ result[n].Calls = EmptySlice

====
